---- MODULE Spec2Model ----
(***************************************************************************)
(* memoria: a GlobalAlloc shim (src/src/lib.rs) that attributes every      *)
(* allocation to the use case current on the allocating thread, and the    *)
(* default StatsRecorder (src/src/recorder.rs).                            *)
(*                                                                         *)
(* The model is a set of threads.  Each thread runs application code, and  *)
(* while it is inside a shim frame (a recorder hook called by alloc or     *)
(* dealloc, or the closure of with_recorder) it runs the code of that      *)
(* frame, which may itself call the shim again.  A recorder hook holds the *)
(* lock of the results map while it updates an entry.                      *)
(***************************************************************************)
EXTENDS Integers, Sequences, FiniteSets, TLC

\* ---------------------------------------------------------------- bounds
\* Calls that grow a counter (every alloc, every dropped event).
MaxOps == 3
\* Calls of with_usecase in a run, over all threads.
MaxGuards == 2
\* Calls of flush in a run, over all threads.
MaxFlush == 1

Threads == {1, 2}
\* Addresses the underlying allocator can hand out; NULL is its failure.
Ptrs == {1, 2}
NULL == 0
Addrs == Ptrs \cup {NULL}
\* Layout sizes.
Sizes == {1}

\* ------------------------------------------------------ use cases (types.rs)
\* A user enum: a default variant, an ordinary variant, and a variant X
\* whose Into<u32> value does not parse back (the non-isomorphic
\* implementation that Error::CurrentUsecaseBadBytes is documented for).
UseCases == {"Default", "A", "X"}
DefaultUseCase == "Default"

\* The use cases application code passes to with_usecase.
Acquired == UseCases \ {DefaultUseCase}

\* Into<UseCaseBytes> for the use case type.
Into(u) ==
    CASE u = "Default" -> 0
      [] u = "A" -> 1
      [] u = "X" -> 2

UseCaseBytes == {Into(u) : u \in UseCases}

\* TryFrom<UseCaseBytes>: the variant, or "Err" when the bytes do not parse.
TryFrom(b) ==
    CASE b = 0 -> "Default"
      [] b = 1 -> "A"
      [] OTHER -> "Err"

\* Option::None of the context cell, and a missing entry of the pointer map.
None == -1

\* use_case_bytes.and_then(|x| U::try_from(x).ok()).unwrap_or_default()
DecodeCurrent(cell) ==
    IF cell = None \/ TryFrom(cell) = "Err" THEN DefaultUseCase ELSE TryFrom(cell)

\* use_case_bytes.unwrap_or_else(|| U::default().into())
BytesOrDefault(cell) == IF cell = None THEN Into(DefaultUseCase) ELSE cell

\* U::try_from(use_case_bytes).unwrap_or_default()
DecodeTracked(b) == IF TryFrom(b) = "Err" THEN DefaultUseCase ELSE TryFrom(b)

\* ------------------------------------------------------------ Stat (recorder.rs)
ErrorKinds == {"CurrentUsecaseContentionRefCell",
               "CurrentUsecaseContentionThreadLocal",
               "CurrentUsecaseBadBytes"}

\* Stat::default(), and the absence of an entry in the results map.
NoStat == [present |-> FALSE, current |-> 0, peak |-> 0, total |-> 0]

\* A record whose peak follows current down.
record_peak_follows(stat, size) ==
    LET cur == stat.current + size
    IN  [present |-> TRUE,
         current |-> cur,
         peak    |-> cur,
         total   |-> IF size > 0 THEN stat.total + size ELSE stat.total]

\* A record that adds every size to total, the negative ones too.
record_total_signed(stat, size) ==
    LET cur == stat.current + size
    IN  [present |-> TRUE,
         current |-> cur,
         peak    |-> IF cur > stat.peak THEN cur ELSE stat.peak,
         total   |-> stat.total + size]

\* Stat::record
record(stat, size) ==
    LET cur == stat.current + size
    IN  [present |-> TRUE,
         current |-> cur,
         peak    |-> IF cur > stat.peak THEN cur ELSE stat.peak,
         total   |-> IF size > 0 THEN stat.total + size ELSE stat.total]

VARIABLES
    CURRENT_USECASE,   \* per thread: the context cell, None or raw bytes
    borrowed,          \* per thread: the RefCell's borrow flag
    guards,            \* per thread: the live Guard objects, oldest first
    stack,             \* per thread: the shim frames it is inside, outermost first
    TRACKED_POINTERS,  \* the pointer map: address -> raw bytes, or None
    results,           \* StatsRecorder.results: raw bytes -> Stat
    results_lock,      \* the thread holding the results map's lock, or 0
    errors,            \* StatsRecorder's three error counters
    heap,              \* the underlying allocator: per address, its block
    ncalls,            \* history: calls made so far that grow a counter, by kind
    nguards,           \* history: calls of with_usecase made so far
    lifo,              \* history: the thread dropped its guards innermost first
    recorder,          \* the type R of the recorder, fixed at construction
    flushed,           \* history: what the latest flush passed to its visitors
    nflush             \* history: calls of flush made so far

vars == <<CURRENT_USECASE, borrowed, guards, stack, TRACKED_POINTERS,
          results, results_lock, errors, heap, ncalls, nguards,
          lifo, recorder, flushed, nflush>>

\* A block of the underlying allocator.  st: "free", "pending" (the shim's
\* alloc has it and has not returned yet), "live", "freeing" (the shim's
\* dealloc has it).  site, tracked and owner are history: the decoded use
\* case current on the allocating thread, whether this allocation inserted
\* its own pointer-map entry, and whether application code ("app") or
\* recorder code running inside a hook ("rec") asked for it.
FreeBlock == [st |-> "free", size |-> 0, site |-> DefaultUseCase,
              tracked |-> FALSE, owner |-> "app"]

NoFrame == [op |-> "none", pc |-> "none", ptr |-> NULL, size |-> 0,
            use_case |-> DefaultUseCase, bytes |-> 0, todo |-> {}]

Top(t) == IF stack[t] = <<>> THEN NoFrame ELSE stack[t][Len(stack[t])]

Push(t, f) == [stack EXCEPT ![t] = Append(@, f)]
Pop(t) == [stack EXCEPT ![t] = SubSeq(@, 1, Len(@) - 1)]
SetPc(t, pc) == [stack EXCEPT ![t][Len(stack[t])].pc = pc]

\* The thread is inside a recorder hook (on_alloc or on_dealloc and what
\* follows it under the same borrow).
InHook(t) == Top(t).op \in {"alloc", "dealloc"}

\* The calls counted against MaxOps: every alloc, and every dropped dealloc
\* and refused with_recorder.
CallKinds == {"alloc", "dealloc", "with_recorder"}
Calls == ncalls["alloc"] + ncalls["dealloc"] + ncalls["with_recorder"]
Count(k) == [ncalls EXCEPT ![k] = @ + 1]

\* The thread is running code that can call the shim: application code, the
\* closure of with_recorder, or recorder code that allocates (DashMap's
\* entry().or_insert_with() allocates under the map's lock).
Running(t) ==
    \/ stack[t] = <<>>
    \/ Top(t).pc \in {"closure", "record"}

\* Who asks for memory at this point of thread t.
Owner(t) == IF InHook(t) THEN "rec" ELSE "app"

\* The recorder types: StatsRecorder, and a type that keeps the defaults of
\* trait Recorder (on_alloc returns false, on_dealloc and on_error do
\* nothing).
Recorders == {"StatsRecorder", "Recorder"}

\* No flush yet: neither visitor has been called.
NoFlush == [stats |-> [b \in UseCaseBytes |-> <<>>],
            errs |-> [k \in ErrorKinds |-> <<>>]]

Init ==
    /\ CURRENT_USECASE = [t \in Threads |-> None]
    /\ borrowed = [t \in Threads |-> FALSE]
    /\ guards = [t \in Threads |-> <<>>]
    /\ stack = [t \in Threads |-> <<>>]
    /\ TRACKED_POINTERS = [a \in Addrs |-> None]
    /\ results = [b \in UseCaseBytes |-> NoStat]
    /\ results_lock = 0
    /\ errors = [k \in ErrorKinds |-> 0]
    /\ heap = [p \in Ptrs |-> FreeBlock]
    /\ ncalls = [k \in CallKinds |-> 0]
    /\ nguards = 0
    /\ lifo = [t \in Threads |-> TRUE]
    /\ recorder = "StatsRecorder"
    /\ flushed = NoFlush
    /\ nflush = 0

\* --------------------------------------------------- synchronized (lib.rs)
\* LocalKey::try_with fails only once the key's destructor has run; the
\* cell, RefCell<Option<u32>>, has none, so the key is never destroyed.
try_with(t) == TRUE

\* A borrow check that never sees the flag.
try_borrow_mut_unchecked(t) == TRUE

\* RefCell::try_borrow_mut
try_borrow_mut(t) == ~borrowed[t]

\* synchronized with the outcome of the borrow read the wrong way round.
synchronized_inverted(t) ==
    IF ~try_with(t) THEN "CurrentUsecaseContentionThreadLocal"
    ELSE IF try_borrow_mut(t) THEN "CurrentUsecaseContentionRefCell"
    ELSE "Ok"

\* Alloc::synchronized: "Ok" when f runs, else the error it returns.
synchronized(t) ==
    IF ~try_with(t) THEN "CurrentUsecaseContentionThreadLocal"
    ELSE IF try_borrow_mut(t) THEN "Ok"
    ELSE "CurrentUsecaseContentionRefCell"

\* An on_error that loses the event.
on_error_lost(code) == errors

\* Recorder::on_error: StatsRecorder counts the error, the trait's default
\* does nothing.
on_error(code) ==
    IF recorder = "StatsRecorder" THEN [errors EXCEPT ![code] = @ + 1]
    ELSE errors

\* -------------------------------------------------------------- alloc
\* GlobalAlloc::alloc: forwards to the underlying allocator, which returns a
\* free address p or NULL, then handle_on_alloc up to the call of on_alloc.
alloc(t, sz, p) ==
    /\ Running(t)
    /\ Calls < MaxOps
    /\ p \in {NULL} \cup {q \in Ptrs : heap[q].st = "free"}
    /\ ncalls' = Count("alloc")
    /\ LET e == synchronized(t)
           blk == [st |-> "pending", size |-> sz,
                   site |-> DecodeCurrent(CURRENT_USECASE[t]),
                   tracked |-> FALSE, owner |-> Owner(t)]
       IN  IF e = "Ok"
           THEN /\ borrowed' = [borrowed EXCEPT ![t] = TRUE]
                /\ stack' = Push(t, [op |-> "alloc", pc |-> "on_alloc",
                                     ptr |-> p, size |-> sz,
                                     use_case |-> DecodeCurrent(CURRENT_USECASE[t]),
                                     bytes |-> BytesOrDefault(CURRENT_USECASE[t]),
                                     todo |-> {}])
                /\ heap' = IF p = NULL THEN heap ELSE [heap EXCEPT ![p] = blk]
                /\ UNCHANGED errors
           ELSE /\ errors' = on_error(e)
                /\ heap' = IF p = NULL THEN heap
                           ELSE [heap EXCEPT ![p] = [blk EXCEPT !.st = "live"]]
                /\ UNCHANGED <<borrowed, stack>>
    /\ UNCHANGED <<nguards, CURRENT_USECASE, guards, TRACKED_POINTERS,
                   results, results_lock, lifo>>
    /\ UNCHANGED <<recorder, flushed, nflush>>

\* StatsRecorder::get_mut: takes the results map's lock for the entry.
get_mut(t) ==
    /\ recorder = "StatsRecorder"
    /\ Top(t).pc \in {"on_alloc", "on_dealloc"}
    /\ results_lock = 0
    /\ results_lock' = t
    /\ stack' = SetPc(t, "record")
    /\ UNCHANGED <<nguards, CURRENT_USECASE, borrowed, guards, TRACKED_POINTERS,
                   results, errors, heap, ncalls, lifo>>
    /\ UNCHANGED <<recorder, flushed, nflush>>

\* What Recorder::on_alloc returns: true for StatsRecorder, false for the
\* trait's default.
on_alloc_returns == recorder = "StatsRecorder"

\* An alloc that inserts the pointer whatever on_alloc returns.
alloc_return_unconditional(t) ==
    /\ Top(t).op = "alloc"
    /\ LET f == Top(t)
       IN  IF on_alloc_returns
           THEN /\ f.pc = "record"
                /\ results_lock = t
                /\ results' = [results EXCEPT ![Into(f.use_case)] = record(@, f.size)]
                /\ TRACKED_POINTERS' = [TRACKED_POINTERS EXCEPT ![f.ptr] = f.bytes]
                /\ heap' = IF f.ptr = NULL THEN heap
                           ELSE [heap EXCEPT ![f.ptr].st = "live",
                                             ![f.ptr].tracked = TRUE]
                /\ results_lock' = 0
           ELSE /\ f.pc = "on_alloc"
                /\ TRACKED_POINTERS' = [TRACKED_POINTERS EXCEPT ![f.ptr] = f.bytes]
                /\ heap' = IF f.ptr = NULL THEN heap
                           ELSE [heap EXCEPT ![f.ptr].st = "live",
                                             ![f.ptr].tracked = TRUE]
                /\ UNCHANGED <<results, results_lock>>
    /\ borrowed' = [borrowed EXCEPT ![t] = FALSE]
    /\ stack' = Pop(t)
    /\ UNCHANGED <<nguards, CURRENT_USECASE, guards, errors, ncalls, lifo>>
    /\ UNCHANGED <<recorder, flushed, nflush>>

\* The rest of alloc.  StatsRecorder: Stat::record on the entry (created when
\* missing), the lock is released and on_alloc returns true;
\* TRACKED_POINTERS.insert(ptr, bytes).  The trait's default on_alloc does
\* nothing and returns false: nothing is inserted.  Then the borrow is
\* released and alloc returns ptr.
alloc_return(t) ==
    /\ Top(t).op = "alloc"
    /\ LET f == Top(t)
       IN  IF on_alloc_returns
           THEN /\ f.pc = "record"
                /\ results_lock = t
                /\ results' = [results EXCEPT ![Into(f.use_case)] = record(@, f.size)]
                /\ TRACKED_POINTERS' = [TRACKED_POINTERS EXCEPT ![f.ptr] = f.bytes]
                /\ heap' = IF f.ptr = NULL THEN heap
                           ELSE [heap EXCEPT ![f.ptr].st = "live",
                                             ![f.ptr].tracked = TRUE]
                /\ results_lock' = 0
           ELSE /\ f.pc = "on_alloc"
                /\ heap' = IF f.ptr = NULL THEN heap
                           ELSE [heap EXCEPT ![f.ptr].st = "live"]
                /\ UNCHANGED <<results, results_lock, TRACKED_POINTERS>>
    /\ borrowed' = [borrowed EXCEPT ![t] = FALSE]
    /\ stack' = Pop(t)
    /\ UNCHANGED <<nguards, CURRENT_USECASE, guards, errors, ncalls, lifo>>
    /\ UNCHANGED <<recorder, flushed, nflush>>

\* ------------------------------------------------------------ dealloc
\* Recorder code frees only memory it allocated itself.  Application code
\* (the closure of with_recorder included) frees what it allocated; the
\* recorder's memory is freed by recorder methods, which run inside a hook
\* or inside the closure of with_recorder.
MayFree(t, p) ==
    /\ heap[p].st = "live"
    /\ IF InHook(t) THEN heap[p].owner = "rec"
       ELSE heap[p].owner = "app" \/ stack[t] # <<>>

\* A dealloc that reads the entry and leaves it in the map.
dealloc_keeps_entry(t, p) ==
    /\ Running(t)
    /\ MayFree(t, p)
    /\ LET e == synchronized(t)
           entry == TRACKED_POINTERS[p]
       IN  IF e = "Ok"
           THEN /\ UNCHANGED TRACKED_POINTERS
                /\ IF entry # None
                   THEN /\ borrowed' = [borrowed EXCEPT ![t] = TRUE]
                        /\ heap' = [heap EXCEPT ![p].st = "freeing"]
                        /\ stack' = Push(t, [op |-> "dealloc", pc |-> "on_dealloc",
                                             ptr |-> p, size |-> heap[p].size,
                                             use_case |-> DecodeTracked(entry),
                                             bytes |-> entry, todo |-> {}])
                   ELSE /\ heap' = [heap EXCEPT ![p] = FreeBlock]
                        /\ UNCHANGED <<borrowed, stack>>
                /\ UNCHANGED <<errors, ncalls>>
           ELSE /\ Calls < MaxOps
                /\ ncalls' = Count("dealloc")
                /\ errors' = on_error(e)
                /\ heap' = [heap EXCEPT ![p] = FreeBlock]
                /\ UNCHANGED <<borrowed, stack, TRACKED_POINTERS>>
    /\ UNCHANGED <<nguards, CURRENT_USECASE, guards, results, results_lock,
                   lifo>>
    /\ UNCHANGED <<recorder, flushed, nflush>>

\* A dealloc that keeps the block when the event is dropped.
dealloc_kept_on_error(t, p) ==
    /\ Running(t)
    /\ MayFree(t, p)
    /\ LET e == synchronized(t)
           entry == TRACKED_POINTERS[p]
       IN  IF e = "Ok"
           THEN /\ TRACKED_POINTERS' = [TRACKED_POINTERS EXCEPT ![p] = None]
                /\ IF entry # None
                   THEN /\ borrowed' = [borrowed EXCEPT ![t] = TRUE]
                        /\ heap' = [heap EXCEPT ![p].st = "freeing"]
                        /\ stack' = Push(t, [op |-> "dealloc", pc |-> "on_dealloc",
                                             ptr |-> p, size |-> heap[p].size,
                                             use_case |-> DecodeTracked(entry),
                                             bytes |-> entry, todo |-> {}])
                   ELSE /\ heap' = [heap EXCEPT ![p] = FreeBlock]
                        /\ UNCHANGED <<borrowed, stack>>
                /\ UNCHANGED <<errors, ncalls>>
           ELSE /\ Calls < MaxOps
                /\ ncalls' = Count("dealloc")
                /\ errors' = on_error(e)
                /\ UNCHANGED <<heap, borrowed, stack, TRACKED_POINTERS>>
    /\ UNCHANGED <<nguards, CURRENT_USECASE, guards, results, results_lock,
                   lifo>>
    /\ UNCHANGED <<recorder, flushed, nflush>>

\* GlobalAlloc::dealloc of live block p: handle_on_dealloc removes p's entry
\* and, when there was one, calls on_dealloc.  When there was none, or the
\* event is dropped, the underlying dealloc follows at once.
dealloc(t, p) ==
    /\ Running(t)
    /\ MayFree(t, p)
    /\ LET e == synchronized(t)
           entry == TRACKED_POINTERS[p]
       IN  IF e = "Ok"
           THEN /\ TRACKED_POINTERS' = [TRACKED_POINTERS EXCEPT ![p] = None]
                /\ IF entry # None
                   THEN /\ borrowed' = [borrowed EXCEPT ![t] = TRUE]
                        /\ heap' = [heap EXCEPT ![p].st = "freeing"]
                        /\ stack' = Push(t, [op |-> "dealloc", pc |-> "on_dealloc",
                                             ptr |-> p, size |-> heap[p].size,
                                             use_case |-> DecodeTracked(entry),
                                             bytes |-> entry, todo |-> {}])
                   ELSE /\ heap' = [heap EXCEPT ![p] = FreeBlock]
                        /\ UNCHANGED <<borrowed, stack>>
                /\ UNCHANGED <<errors, ncalls>>
           ELSE /\ Calls < MaxOps
                /\ ncalls' = Count("dealloc")
                /\ errors' = on_error(e)
                /\ heap' = [heap EXCEPT ![p] = FreeBlock]
                /\ UNCHANGED <<borrowed, stack, TRACKED_POINTERS>>
    /\ UNCHANGED <<nguards, CURRENT_USECASE, guards, results, results_lock,
                   lifo>>
    /\ UNCHANGED <<recorder, flushed, nflush>>

\* The rest of dealloc: Stat::record on the entry, the lock and the borrow
\* are released, and self.alloc.dealloc(ptr, layout) gives the block back.
dealloc_return(t) ==
    /\ Top(t).op = "dealloc"
    /\ Top(t).pc = "record"
    /\ results_lock = t
    /\ LET f == Top(t)
       IN  /\ results' = [results EXCEPT ![Into(f.use_case)] = record(@, 0 - f.size)]
           /\ heap' = [heap EXCEPT ![f.ptr] = FreeBlock]
    /\ results_lock' = 0
    /\ borrowed' = [borrowed EXCEPT ![t] = FALSE]
    /\ stack' = Pop(t)
    /\ UNCHANGED <<nguards, CURRENT_USECASE, guards, TRACKED_POINTERS, errors,
                   ncalls, lifo>>
    /\ UNCHANGED <<recorder, flushed, nflush>>

\* ------------------------------------------------------------- guards
\* A Guard holds old_value; use is history: the use case it was acquired for.
\* Alloc::with_usecase: on success the cell's value moves into a new Guard
\* and the cell holds the new use case's bytes; on failure no Guard is made.
with_usecase(t, u) ==
    /\ Running(t)
    /\ nguards < MaxGuards
    /\ nguards' = nguards + 1
    /\ LET e == synchronized(t)
       IN  IF e = "Ok"
           THEN /\ guards' = [guards EXCEPT ![t] =
                       Append(@, [old_value |-> CURRENT_USECASE[t], use |-> u])]
                /\ CURRENT_USECASE' = [CURRENT_USECASE EXCEPT ![t] = Into(u)]
                /\ UNCHANGED errors
           ELSE /\ errors' = on_error(e)
                /\ UNCHANGED <<guards, CURRENT_USECASE>>
    /\ UNCHANGED <<ncalls, borrowed, stack, TRACKED_POINTERS, results,
                   results_lock, heap, lifo>>
    /\ UNCHANGED <<recorder, flushed, nflush>>

\* The sequence s without its i-th element.
RemoveAt(s, i) == SubSeq(s, 1, i - 1) \o SubSeq(s, i + 1, Len(s))

\* Drop for Guard, of the thread's i-th guard, by application code.
\* current_value.borrow_mut() panics when the cell is borrowed (the guard is
\* dropped inside the closure of with_recorder): the guard is gone, the cell
\* keeps its value, and the panic unwinds out of with_recorder, which
\* releases the borrow.  Whether the thread then catches the panic or
\* unwinds further, dropping its other guards, is left to its later steps.
\* Otherwise the cell gets the guard's old_value.
drop(t, i) ==
    /\ Running(t)
    /\ ~InHook(t)
    /\ i \in 1..Len(guards[t])
    /\ IF ~try_with(t)
       THEN /\ guards' = [guards EXCEPT ![t] = RemoveAt(@, i)]
            /\ lifo' = [lifo EXCEPT ![t] = @ /\ i = Len(guards[t])]
            /\ UNCHANGED <<CURRENT_USECASE, borrowed, stack>>
       ELSE IF borrowed[t]
       THEN /\ guards' = [guards EXCEPT ![t] = RemoveAt(@, i)]
            /\ lifo' = [lifo EXCEPT ![t] = @ /\ i = Len(guards[t])]
            /\ stack' = Pop(t)
            /\ borrowed' = [borrowed EXCEPT ![t] = FALSE]
            /\ UNCHANGED CURRENT_USECASE
       ELSE /\ CURRENT_USECASE' = [CURRENT_USECASE EXCEPT ![t] = guards[t][i].old_value]
            /\ guards' = [guards EXCEPT ![t] = RemoveAt(@, i)]
            /\ lifo' = [lifo EXCEPT ![t] = @ /\ i = Len(guards[t])]
            /\ UNCHANGED <<borrowed, stack>>
    /\ UNCHANGED <<nguards, TRACKED_POINTERS, results, results_lock, errors,
                   heap, ncalls>>
    /\ UNCHANGED <<recorder, flushed, nflush>>

\* ------------------------------------------------------ with_recorder
\* Alloc::with_recorder: on success the closure f starts running under the
\* borrow; on failure f is not called.
with_recorder(t) ==
    /\ Running(t)
    /\ LET e == synchronized(t)
       IN  IF e = "Ok"
           THEN /\ borrowed' = [borrowed EXCEPT ![t] = TRUE]
                /\ stack' = Push(t, [NoFrame EXCEPT !.op = "with_recorder",
                                                    !.pc = "closure"])
                /\ UNCHANGED <<errors, ncalls>>
           ELSE /\ Calls < MaxOps
                /\ ncalls' = Count("with_recorder")
                /\ errors' = on_error(e)
                /\ UNCHANGED <<borrowed, stack>>
    /\ UNCHANGED <<nguards, CURRENT_USECASE, guards, TRACKED_POINTERS,
                   results, results_lock, heap, lifo>>
    /\ UNCHANGED <<recorder, flushed, nflush>>

\* The closure f returns: synchronized releases the borrow.
with_recorder_return(t) ==
    /\ Top(t).pc = "closure"
    /\ stack' = Pop(t)
    /\ borrowed' = [borrowed EXCEPT ![t] = FALSE]
    /\ UNCHANGED <<nguards, CURRENT_USECASE, guards, TRACKED_POINTERS,
                   results, results_lock, errors, heap, ncalls, lifo>>
    /\ UNCHANGED <<recorder, flushed, nflush>>

\* ------------------------------------------------------------- flush
\* StatsRecorder::get, as the triple it returns: the entry's Stat, or
\* Stat::default() when the map has no entry.
get(b) == [current |-> results[b].current, peak |-> results[b].peak,
           total |-> results[b].total]

\* StatsRecorder::flush, called by the closure of with_recorder (the only
\* access to the recorder of an Alloc): results.iter() starts.  The iterator
\* walks the map shard by shard, so the keys are reached one at a time, in
\* an order the hasher decides.
flush(t) ==
    /\ recorder = "StatsRecorder"
    /\ Top(t).pc = "closure"
    /\ nflush < MaxFlush
    /\ nflush' = nflush + 1
    /\ flushed' = NoFlush
    /\ stack' = [stack EXCEPT ![t][Len(stack[t])].pc = "iter",
                              ![t][Len(stack[t])].todo = UseCaseBytes]
    /\ UNCHANGED <<CURRENT_USECASE, borrowed, guards, TRACKED_POINTERS, results,
                   results_lock, errors, heap, ncalls, nguards, lifo, recorder>>

\* The iterator reaches key b under the read lock of its shard: when the map
\* has an entry for b, stat_fn(U::try_from(b).unwrap_or_default(), stat).
flush_visit(t, b) ==
    /\ Top(t).pc = "iter"
    /\ b \in Top(t).todo
    /\ results_lock = 0
    /\ flushed' = IF results[b].present
                  THEN [flushed EXCEPT !.stats[b] = Append(@, get(b))]
                  ELSE flushed
    /\ stack' = [stack EXCEPT ![t][Len(stack[t])].todo = @ \ {b}]
    /\ UNCHANGED <<CURRENT_USECASE, borrowed, guards, TRACKED_POINTERS, results,
                   results_lock, errors, heap, ncalls, nguards, lifo, recorder,
                   nflush>>

\* A flush that forgets results.clear().
flush_no_clear(t) ==
    /\ Top(t).pc = "iter"
    /\ Top(t).todo = {}
    /\ results_lock = 0
    /\ flushed' = [flushed EXCEPT !.errs = [k \in ErrorKinds |-> <<errors[k]>>]]
    /\ stack' = SetPc(t, "closure")
    /\ UNCHANGED <<CURRENT_USECASE, borrowed, guards, TRACKED_POINTERS, results,
                   results_lock, errors, heap, ncalls, nguards, lifo, recorder,
                   nflush>>

\* A flush that reads the error counters with swap(0).
flush_reset_errors(t) ==
    /\ Top(t).pc = "iter"
    /\ Top(t).todo = {}
    /\ results_lock = 0
    /\ results' = [b \in UseCaseBytes |-> NoStat]
    /\ flushed' = [flushed EXCEPT !.errs = [k \in ErrorKinds |-> <<errors[k]>>]]
    /\ errors' = [k \in ErrorKinds |-> 0]
    /\ stack' = SetPc(t, "closure")
    /\ UNCHANGED <<CURRENT_USECASE, borrowed, guards, TRACKED_POINTERS,
                   results_lock, heap, ncalls, nguards, lifo, recorder,
                   nflush>>

\* The iterator is exhausted: results.clear() under the write locks, then
\* error_fn(kind, get_error(kind)) for each of the three kinds, and flush
\* returns to the closure.
flush_clear(t) ==
    /\ Top(t).pc = "iter"
    /\ Top(t).todo = {}
    /\ results_lock = 0
    /\ results' = [b \in UseCaseBytes |-> NoStat]
    /\ flushed' = [flushed EXCEPT !.errs = [k \in ErrorKinds |-> <<errors[k]>>]]
    /\ stack' = SetPc(t, "closure")
    /\ UNCHANGED <<CURRENT_USECASE, borrowed, guards, TRACKED_POINTERS,
                   results_lock, errors, heap, ncalls, nguards, lifo, recorder,
                   nflush>>

Next ==
    \/ \E t \in Threads, sz \in Sizes, p \in Addrs : alloc(t, sz, p)
    \/ \E t \in Threads : get_mut(t)
    \/ \E t \in Threads : alloc_return(t)
    \/ \E t \in Threads, p \in Ptrs : dealloc(t, p)
    \/ \E t \in Threads : dealloc_return(t)
    \/ \E t \in Threads, u \in Acquired : with_usecase(t, u)
    \/ \E t \in Threads, i \in 1..MaxGuards : drop(t, i)
    \/ \E t \in Threads : with_recorder(t)
    \/ \E t \in Threads : with_recorder_return(t)

Spec == Init /\ [][Next]_vars

\* What a thread inside a shim frame does next without being asked: the
\* recorder's hook and the closure run to their end.  Threads are scheduled
\* preemptively, so each of these steps is taken once it stays possible.
Progress(t) ==
    \/ get_mut(t)
    \/ alloc_return(t)
    \/ dealloc_return(t)
    \/ with_recorder_return(t)

\* The calls into the shim and their completions, without guard destruction
\* (Drop for Guard calls nothing of the shim but the cell).
NextCalls ==
    \/ \E t \in Threads, sz \in Sizes, p \in Addrs : alloc(t, sz, p)
    \/ \E t \in Threads : get_mut(t)
    \/ \E t \in Threads : alloc_return(t)
    \/ \E t \in Threads, p \in Ptrs : dealloc(t, p)
    \/ \E t \in Threads : dealloc_return(t)
    \/ \E t \in Threads, u \in Acquired : with_usecase(t, u)
    \/ \E t \in Threads : with_recorder(t)
    \/ \E t \in Threads : with_recorder_return(t)

FairSpec ==
    Init /\ [][NextCalls]_vars /\ \A t \in Threads : WF_vars(Progress(t))

\* The thread that reads and flushes the recorder; the other threads only
\* run application code.  (Threads are alike, so which one is no loss.)
Reporter == 1

\* The calls into the shim, under guards for a decodable use case, and
\* flush: what the closure of with_recorder does with the recorder it is
\* given.
NextFlush ==
    \/ \E t \in Threads, sz \in Sizes, p \in Addrs : alloc(t, sz, p)
    \/ \E t \in Threads : get_mut(t)
    \/ \E t \in Threads : alloc_return(t)
    \/ \E t \in Threads, p \in Ptrs : dealloc(t, p)
    \/ \E t \in Threads : dealloc_return(t)
    \/ \E t \in Threads : with_usecase(t, "A")
    \/ with_recorder(Reporter)
    \/ with_recorder_return(Reporter)
    \/ flush(Reporter)
    \/ \E b \in UseCaseBytes : flush_visit(Reporter, b)
    \/ flush_clear(Reporter)

SpecFlush == Init /\ [][NextFlush]_vars

\* ------------------------------------------------------------ sanity
RefCellKind == "CurrentUsecaseContentionRefCell"

TypeOK ==
    /\ \A t \in Threads :
          /\ CURRENT_USECASE[t] \in UseCaseBytes \cup {None}
          /\ borrowed[t] \in BOOLEAN
          /\ Len(stack[t]) <= 1
          /\ borrowed[t] <=> stack[t] # <<>>
    /\ results_lock \in Threads \cup {0}
    /\ \A a \in Addrs : TRACKED_POINTERS[a] \in UseCaseBytes \cup {None}
    /\ Calls <= MaxOps

\* ------------------------------------------------------------- claims

\* C1: while a thread's context cell is borrowed by a shim frame, an alloc or
\* dealloc made on that thread is dropped: it reports ContentionRefCell once
\* and nothing else, enters no recorder hook, and leaves the pointer map and
\* every Stat as they were.
C1_NestedEventDropped ==
    [][\A t \in Threads :
         (/\ borrowed[t]
          /\ \/ \E sz \in Sizes, p \in Addrs : alloc(t, sz, p)
             \/ \E p \in Ptrs : dealloc(t, p))
         => /\ errors' = [errors EXCEPT ![RefCellKind] = @ + 1]
            /\ UNCHANGED <<TRACKED_POINTERS, results, stack, results_lock>>]_vars

\* A block allocated inside the closure of with_recorder is live and was
\* never inserted, and the only calls so far are that alloc and no other.
C1_Witness ==
    \E t \in Threads, p \in Ptrs :
        /\ Top(t).pc = "closure"
        /\ heap[p].st = "live" /\ ~heap[p].tracked
        /\ ncalls = [k \in CallKinds |-> IF k = "alloc" THEN 1 ELSE 0]
        /\ errors[RefCellKind] = 1

\* C2: with a recorder that allocates and frees inside its hooks, a thread is
\* never inside more than one shim frame, so never inside a hook within a
\* hook, and every frame it enters is left again: every call returns.
C2_NoReentryAndReturn ==
    /\ [](\A t \in Threads : Len(stack[t]) <= 1)
    /\ \A t \in Threads : (stack[t] # <<>>) ~> (stack[t] = <<>>)

\* Recorder code allocated a block under the results map's lock, inside the
\* hook of an alloc, and the event was dropped.
C2_Witness ==
    \E t \in Threads, p \in Ptrs :
        /\ Top(t).op = "alloc" /\ Top(t).pc = "record"
        /\ heap[p].st = "live" /\ heap[p].owner = "rec"
        /\ errors[RefCellKind] >= 1

\* ---------------------------------------------------------------- C3
\* The use cases whose bytes parse back to themselves.
Decodable == {u \in UseCases : TryFrom(Into(u)) = u}

\* Application code only: no with_recorder, and guards for decodable use
\* cases.  The recorder's hooks still run, and allocate, inside alloc and
\* dealloc.
NextApp ==
    \/ \E t \in Threads, sz \in Sizes, p \in Addrs : alloc(t, sz, p)
    \/ \E t \in Threads : get_mut(t)
    \/ \E t \in Threads : alloc_return(t)
    \/ \E t \in Threads, p \in Ptrs : dealloc(t, p)
    \/ \E t \in Threads : dealloc_return(t)
    \/ \E t \in Threads, u \in Acquired \cap Decodable : with_usecase(t, u)
    \/ \E t \in Threads, i \in 1..MaxGuards : drop(t, i)

SpecApp == Init /\ [][NextApp]_vars

RECURSIVE SumSizes(_)
SumSizes(S) ==
    IF S = {} THEN 0
    ELSE LET p == CHOOSE q \in S : TRUE
         IN  heap[p].size + SumSizes(S \ {p})

\* The application's allocations made under use case u that on_alloc has
\* recorded and on_dealloc has not yet taken back.
Outstanding(u) ==
    {p \in Ptrs : /\ heap[p].owner = "app"
                  /\ heap[p].site = u
                  /\ heap[p].st \in {"live", "freeing"}}

\* C3: under application code on any threads, with decodable tags and no
\* flush, current(T) is for every tag T the sum of the sizes of the
\* allocations made under T and not yet deallocated.
C3_CurrentIsOutstanding ==
    \A u \in Decodable : results[Into(u)].current = SumSizes(Outstanding(u))

\* ---------------------------------------------------------------- C4
\* C4: whenever the shim calls on_dealloc(tag, size) for a pointer, tag is
\* the decoded use case that was current on the allocating thread when the
\* pointer was allocated, whoever frees it and under whatever tag.
C4_DeallocTagIsAllocationSite ==
    \A t \in Threads :
        Top(t).op = "dealloc" => Top(t).use_case = heap[Top(t).ptr].site

\* ---------------------------------------------------------------- C5
\* The context value a stack of guards stands for: the innermost guard's
\* bytes, or unset when the thread holds no guard.
Innermost(t) ==
    IF guards[t] = <<>> THEN None ELSE Into(guards[t][Len(guards[t])].use)

\* C5: on a thread that destroys its guards in reverse order of
\* acquisition, the context is that of the innermost live guard (unset when
\* there is none), and an allocation is attributed to it.
C5_GuardsStack ==
    \A t \in Threads :
        lifo[t] =>
            /\ CURRENT_USECASE[t] = Innermost(t)
            /\ Top(t).op = "alloc" =>
                   /\ Top(t).bytes = BytesOrDefault(Innermost(t))
                   /\ Top(t).use_case = DecodeCurrent(Innermost(t))

\* ---------------------------------------------------------------- C6
\* C6: when the underlying allocator returns null, alloc records nothing:
\* on_alloc is not called for it and no pointer-map entry is inserted.
C6_NullNotRecorded ==
    /\ \A t \in Threads : ~(Top(t).op = "alloc" /\ Top(t).ptr = NULL)
    /\ TRACKED_POINTERS[NULL] = None

\* ---------------------------------------------------------------- C7
BadBytesKind == "CurrentUsecaseBadBytes"

\* C7: when the raw tag of an event does not decode (read from the context
\* by alloc, from the pointer map by dealloc), the hook records the event
\* under the default use case and BadBytes is incremented by exactly 1.
C7_BadBytesCounted ==
    [][\A t \in Threads :
         (/\ TryFrom(Top(t).bytes) = "Err"
          /\ alloc_return(t) \/ dealloc_return(t))
         => /\ results'[Into(DefaultUseCase)] # results[Into(DefaultUseCase)]
            /\ errors'[BadBytesKind] = errors[BadBytesKind] + 1]_vars

\* ---------------------------------------------------------------- C8
\* C8: with_usecase returns no guard exactly when a shim frame of the
\* calling thread holds the context cell: inside a frame no guard is made
\* and the current tag stays as it was; outside any frame a guard holding
\* the prior value is made and the tag becomes the new one.
C8_GuardIffNoFrame ==
    [][\A t \in Threads, u \in Acquired :
         with_usecase(t, u) =>
            IF stack[t] # <<>>
            THEN UNCHANGED <<guards, CURRENT_USECASE>>
            ELSE /\ Len(guards'[t]) = Len(guards[t]) + 1
                 /\ guards'[t][Len(guards'[t])].old_value = CURRENT_USECASE[t]
                 /\ CURRENT_USECASE'[t] = Into(u)]_vars

\* A with_usecase was called inside the closure of with_recorder and refused:
\* one call of with_usecase, one error, no alloc, no dropped event, no guard.
C8_Witness ==
    /\ nguards = 1
    /\ errors[RefCellKind] = 1
    /\ Calls = 0
    /\ \E t \in Threads : Top(t).pc = "closure"
    /\ \A t \in Threads : guards[t] = <<>> /\ CURRENT_USECASE[t] = None

\* ---------------------------------------------------------------- C9
\* C9: with_recorder called while the thread's cell is borrowed does not run
\* its closure, returns ContentionRefCell, and adds one to that counter.
C9_NestedWithRecorderRefused ==
    [][\A t \in Threads :
         (borrowed[t] /\ with_recorder(t))
         => /\ UNCHANGED stack
            /\ synchronized(t) = RefCellKind
            /\ errors' = [errors EXCEPT ![RefCellKind] = @ + 1]]_vars

\* with_recorder was called inside the closure of with_recorder and refused.
C9_Witness ==
    /\ ncalls = [k \in CallKinds |-> IF k = "with_recorder" THEN 1 ELSE 0]
    /\ errors[RefCellKind] = 1
    /\ nguards = 0
    /\ \E t \in Threads : Top(t).pc = "closure"

\* --------------------------------------------------------------- C10
\* C10: whenever no allocation that was inserted into the pointer map is
\* outstanding, the pointer map is empty.
C10_MapEmptyWhenNothingTracked ==
    (\A p \in Ptrs : ~heap[p].tracked)
        => \A p \in Ptrs : TRACKED_POINTERS[p] = None

\* --------------------------------------------------------------- C11
\* C11: for every tag, peak >= current in every state, and no step other
\* than the clear of a flush lowers peak; so between two flushes peak is at
\* least every value current has taken.
C11_PeakBounds ==
    /\ [](\A b \in UseCaseBytes : results[b].peak >= results[b].current)
    /\ [][(~\E t \in Threads : flush_clear(t))
            => \A b \in UseCaseBytes : results'[b].peak >= results[b].peak]_vars

\* After an on_alloc and an on_dealloc for a tag, its peak is above its
\* current.
C11_Witness ==
    \E b \in UseCaseBytes :
        /\ results[b].present
        /\ results[b].peak = 1 /\ results[b].current = 0

\* --------------------------------------------------------------- C12
\* C12: for every tag, a step other than the clear of a flush changes total
\* only when it is the on_alloc of that tag, which adds the size it is
\* given; on_dealloc leaves total as it is.  So between two flushes total is
\* the sum of the sizes passed to on_alloc.
C12_TotalIsSumOfAllocs ==
    [][(~\E t \in Threads : flush_clear(t))
        => \A b \in UseCaseBytes :
              IF \E t \in Threads : alloc_return(t) /\ Into(Top(t).use_case) = b
              THEN \E t \in Threads :
                      /\ alloc_return(t)
                      /\ results'[b].total = results[b].total + Top(t).size
              ELSE results'[b].total = results[b].total]_vars

\* Two allocations and one deallocation were recorded for a tag.
C12_Witness ==
    \E b \in UseCaseBytes :
        results[b].total = 2 /\ results[b].current = 1

\* --------------------------------------------------------------- C13
Zero == [current |-> 0, peak |-> 0, total |-> 0]

\* C13: when the iterator of flush reaches a tag that has an entry, stat_fn
\* is called with that entry's Stat, and for no tag more than once in a
\* flush; when flush has cleared the map, get returns {0, 0, 0} for every
\* tag.
C13_FlushVisitsAndClears ==
    /\ [](\A b \in UseCaseBytes : Len(flushed.stats[b]) <= 1)
    /\ [][/\ \A t \in Threads, b \in UseCaseBytes :
              flush_visit(t, b) =>
                  flushed'.stats[b] = IF results[b].present
                                      THEN <<get(b)>> ELSE <<>>
          /\ \A t \in Threads :
              flush_clear(t) =>
                  \A b \in UseCaseBytes :
                      /\ ~results'[b].present
                      /\ results'[b].current = Zero.current
                      /\ results'[b].peak = Zero.peak
                      /\ results'[b].total = Zero.total]_vars

\* A flush has returned: it passed a recorded Stat to stat_fn and the map is
\* empty.
C13_Witness ==
    /\ nflush = 1
    /\ \E t \in Threads : Top(t).pc = "closure"
    /\ \E b \in UseCaseBytes :
          /\ Len(flushed.stats[b]) = 1
          /\ flushed.stats[b][1].total = 1
    /\ \A k \in ErrorKinds : Len(flushed.errs[k]) = 1
    /\ \A b \in UseCaseBytes : get(b) = Zero

C15_OthersUntouched ==
    \A t, y \in Threads :
        (/\ t # y
         /\ \/ \E u \in Acquired : with_usecase(t, u)
            \/ \E i \in 1..MaxGuards : drop(t, i))
        => CURRENT_USECASE'[y] = CURRENT_USECASE[y]

\* An allocation on thread y is attributed to what y's own context decodes
\* to, the default use case when it is unset.
C15_OwnTag ==
    \A y \in Threads :
        Top(y).op = "alloc" =>
            Top(y).use_case = DecodeCurrent(CURRENT_USECASE[y])

\* C15: the current use case is per thread: with_usecase and guard
\* destruction on one thread never change the tag of another, and an
\* allocation on a thread is attributed to that thread's own current tag,
\* which is the default tag when the thread holds no guard.
C15_ThreadLocalContext ==
    /\ [][C15_OthersUntouched]_vars
    /\ [](C15_OwnTag)
    /\ [](\A y \in Threads :
            (Top(y).op = "alloc" /\ guards[y] = <<>>)
                => Top(y).use_case = DefaultUseCase)

\* The part of C15 about isolation alone.
C15_Isolation ==
    /\ [][C15_OthersUntouched]_vars
    /\ [](C15_OwnTag)

\* --------------------------------------------------------------- C16
\* The shim over either recorder: R is a type parameter of Alloc, fixed when
\* the allocator is built.
InitAnyRecorder ==
    /\ CURRENT_USECASE = [t \in Threads |-> None]
    /\ borrowed = [t \in Threads |-> FALSE]
    /\ guards = [t \in Threads |-> <<>>]
    /\ stack = [t \in Threads |-> <<>>]
    /\ TRACKED_POINTERS = [a \in Addrs |-> None]
    /\ results = [b \in UseCaseBytes |-> NoStat]
    /\ results_lock = 0
    /\ errors = [k \in ErrorKinds |-> 0]
    /\ heap = [p \in Ptrs |-> FreeBlock]
    /\ ncalls = [k \in CallKinds |-> 0]
    /\ nguards = 0
    /\ lifo = [t \in Threads |-> TRUE]
    /\ recorder \in Recorders
    /\ flushed = NoFlush
    /\ nflush = 0

\* Application code under guards for any use case, without with_recorder.
NextAnyRecorder ==
    \/ \E t \in Threads, sz \in Sizes, p \in Addrs : alloc(t, sz, p)
    \/ \E t \in Threads : get_mut(t)
    \/ \E t \in Threads : alloc_return(t)
    \/ \E t \in Threads, p \in Ptrs : dealloc(t, p)
    \/ \E t \in Threads : dealloc_return(t)
    \/ \E t \in Threads, u \in Acquired : with_usecase(t, u)
    \/ \E t \in Threads, i \in 1..MaxGuards : drop(t, i)

SpecAnyRecorder == InitAnyRecorder /\ [][NextAnyRecorder]_vars

\* C16: every entry of the pointer map was inserted by an alloc whose
\* on_alloc returned true, and holds the raw tag found in the allocating
\* thread's context at that moment (the default's encoding when unset); with
\* a recorder whose on_alloc returns false the map stays empty and
\* on_dealloc is never invoked.
C16_EntriesComeFromTrackedAllocs ==
    /\ [][\A a \in Addrs :
            (TRACKED_POINTERS'[a] # TRACKED_POINTERS[a]
                /\ TRACKED_POINTERS'[a] # None)
            => \E t \in Threads :
                  /\ alloc_return(t)
                  /\ on_alloc_returns
                  /\ Top(t).ptr = a
                  /\ TRACKED_POINTERS'[a] = BytesOrDefault(CURRENT_USECASE[t])]_vars
    /\ [](~on_alloc_returns =>
            /\ \A a \in Addrs : TRACKED_POINTERS[a] = None
            /\ \A t \in Threads : Top(t).op # "dealloc")

\* A block allocated under a guard whose tag does not parse back: the entry
\* holds the raw tag although the event went to the default use case.
C16_Witness ==
    \E p \in Ptrs :
        /\ heap[p].st = "live" /\ heap[p].tracked
        /\ TRACKED_POINTERS[p] = Into("X")
        /\ heap[p].site = DefaultUseCase
        /\ on_alloc_returns

\* With the trait's default recorder a block was allocated under a guard
\* and nothing was inserted.
C16_WitnessUntracked ==
    \E p \in Ptrs :
        /\ heap[p].st = "live" /\ ~heap[p].tracked
        /\ heap[p].site = "A"
        /\ ~on_alloc_returns
        /\ \A t \in Threads : stack[t] = <<>>

\* --------------------------------------------------------------- C17
\* The threads whose frame carries block p through operation op.
Holding(op, p) ==
    {t \in Threads : Top(t).op = op /\ Top(t).ptr = p}

\* C17: the shim is transparent to the wrapped allocator: each alloc is
\* forwarded exactly once and returns the pointer the wrapped allocator
\* gave; each dealloc is forwarded exactly once with the pointer and the
\* layout it was called with, also when the borrow fails and the event is
\* dropped.
C17_Transparent ==
    /\ [][\A p \in Ptrs :
            heap'[p] # heap[p] =>
               \/ /\ heap[p].st = "free"
                  /\ \E t \in Threads, sz \in Sizes :
                        /\ alloc(t, sz, p)
                        /\ heap'[p].size = sz
                        /\ heap'[p].st = IF borrowed[t] THEN "live" ELSE "pending"
               \/ /\ heap[p].st = "pending"
                  /\ \E t \in Threads : alloc_return(t) /\ Top(t).ptr = p
                  /\ heap'[p].st = "live" /\ heap'[p].size = heap[p].size
               \/ /\ heap[p].st = "live"
                  /\ \E t \in Threads :
                        /\ dealloc(t, p)
                        /\ \/ heap'[p] = FreeBlock
                           \/ /\ heap'[p].st = "freeing"
                              /\ heap'[p].size = heap[p].size
                              /\ stack'[t] = Append(stack[t], stack'[t][Len(stack'[t])])
                              /\ stack'[t][Len(stack'[t])].op = "dealloc"
                              /\ stack'[t][Len(stack'[t])].ptr = p
                              /\ stack'[t][Len(stack'[t])].size = heap[p].size
               \/ /\ heap[p].st = "freeing"
                  /\ \E t \in Threads :
                        /\ dealloc_return(t)
                        /\ Top(t).ptr = p /\ Top(t).size = heap[p].size
                  /\ heap'[p] = FreeBlock]_vars
    /\ [][\A t \in Threads, p \in Ptrs :
            (dealloc(t, p) /\ borrowed[t]) => heap'[p] = FreeBlock]_vars
    /\ [](\A p \in Ptrs :
            /\ heap[p].st = "pending" <=> Cardinality(Holding("alloc", p)) = 1
            /\ heap[p].st = "freeing" <=> Cardinality(Holding("dealloc", p)) = 1
            /\ Cardinality(Holding("alloc", p)) <= 1
            /\ Cardinality(Holding("dealloc", p)) <= 1)

\* Inside a hook the recorder freed a block of its own: the event was dropped
\* and the block went back to the wrapped allocator.
C17_Witness ==
    \E t \in Threads :
        /\ InHook(t)
        /\ ncalls["dealloc"] = 1
        /\ errors[RefCellKind] = 2
        /\ \A p \in Ptrs : heap[p].owner = "rec" => heap[p].st = "free"
        /\ \E p \in Ptrs : heap[p].st \in {"pending", "freeing"}

\* --------------------------------------------------------------- C18
\* No event has been dropped so far.
NoEventDropped == \A k \in ErrorKinds : errors[k] = 0

\* C18: with addresses handed out again after they were freed, possibly to
\* another thread, and no event dropped, the entry of an address belongs to
\* the allocation that owns the address: an entry is there exactly while the
\* allocation that inserted it is live, with that allocation's tag, and no
\* step but the dealloc of that allocation removes or overwrites it.
C18_EntryBelongsToOwner ==
    /\ [](NoEventDropped =>
            \A p \in Ptrs :
                /\ TRACKED_POINTERS[p] # None =>
                      /\ heap[p].st = "live" /\ heap[p].tracked
                      /\ DecodeTracked(TRACKED_POINTERS[p]) = heap[p].site
                /\ heap[p].st = "live" => TRACKED_POINTERS[p] # None)
    /\ [][NoEventDropped' =>
            \A p \in Ptrs :
                (heap[p].st = "live" /\ TRACKED_POINTERS'[p] # TRACKED_POINTERS[p])
                => \E t \in Threads : dealloc(t, p)]_vars

\* Three allocations on two addresses, none failed and no event dropped: an
\* address was handed out again, and both blocks are live with entries of
\* different tags.
C18_Witness ==
    /\ NoEventDropped
    /\ ncalls["alloc"] = 3
    /\ TRACKED_POINTERS[NULL] = None
    /\ \A t \in Threads : stack[t] = <<>>
    /\ \A p \in Ptrs : heap[p].st = "live"
    /\ TRACKED_POINTERS[1] # TRACKED_POINTERS[2]

\* --------------------------------------------------------------- C19
\* C19: destroying a guard never panics and always writes the guard's
\* old_value back into the cell of the thread that made it, whatever the
\* state of the cell, also while the cell is borrowed by a shim frame (inside
\* the closure of with_recorder): no frame is unwound by the destruction.
C19_DropRestoresWithoutPanic ==
    [][\A t \in Threads, i \in 1..MaxGuards :
         drop(t, i) =>
            /\ CURRENT_USECASE'[t] = guards[t][i].old_value
            /\ stack' = stack]_vars

\* The same for guards destroyed while the cell is not borrowed.
C19_DropRestoresWhenIdle ==
    [][\A t \in Threads, i \in 1..MaxGuards :
         (drop(t, i) /\ ~borrowed[t]) =>
            /\ CURRENT_USECASE'[t] = guards[t][i].old_value
            /\ stack' = stack]_vars

\* --------------------------------------------------------------- C20
\* C20: in whatever order the guards a thread acquired are destroyed, once
\* all are destroyed the thread's current tag is what it was before the
\* first acquisition, which is unset.
C20_AnyOrderRestores ==
    \A t \in Threads : guards[t] = <<>> => CURRENT_USECASE[t] = None

\* The same for guards destroyed in reverse order of acquisition.
C20_ReverseOrderRestores ==
    \A t \in Threads :
        (guards[t] = <<>> /\ lifo[t]) => CURRENT_USECASE[t] = None

\* --------------------------------------------------------------- C21
\* What the flush in progress passed to stat_fn for tag b: the Stat it
\* visited, or nothing.
Visited(b) ==
    IF flushed.stats[b] = <<>> THEN Zero ELSE flushed.stats[b][1]

\* C21: when a flush on one thread interleaves with on_alloc and on_dealloc
\* on other threads, no recorded event is lost: every size recorded for a
\* tag is in the Stat the flush passed to stat_fn or is still in the map
\* after the flush.  The map is empty after results.clear(), so what clear()
\* discards must be what stat_fn was given.
C21_NoEventLostByFlush ==
    [][\A t \in Threads :
         flush_clear(t) =>
            \A b \in UseCaseBytes :
                /\ results[b].total = Visited(b).total
                /\ results[b].current = Visited(b).current]_vars
====
